---- MODULE Spec2Model ----
(***************************************************************************)
(* State-machine model of the FRBSF economic-letters cache:                *)
(*   src/database.py  DatabaseManager over three tables                    *)
(*   src/main.py      request handlers and the two scraping helpers        *)
(* Time is counted in hours.  Every handler of the serial specifications   *)
(* is one step; ConcInsightSpec splits the answer request where the source *)
(* leaves the store between two statements.                                *)
(***************************************************************************)
EXTENDS Integers, Sequences, FiniteSets, TLC

VARIABLES now, letters, cache, insights, written, ret, pc, loc

vars == <<now, letters, cache, insights, written, ret, pc, loc>>

----------------------------------------------------------------------------
(* Bounds of the model *)

MaxTicks == 2
MaxLinks == 2
MaxLimit == 1
MaxPage == 1
MaxId == 3

(* Program constants *)

CACHE_EXPIRY_HOURS == 24

\* the clock is read every half expiry period
TickHours == CACHE_EXPIRY_HOURS \div 2
MinFetch == 20
RefreshLimit == 20
SummaryChars == 500

----------------------------------------------------------------------------
(* The source site: what the scraping collaborator can see *)

Hrefs == {"a", "b"}

\* Editions of the site: 1 and 2 differ in the link texts; in edition 3 the
\* link of "a" carries no text and the body of "b" cannot be fetched.
Versions == {1, 2, 3}

ListFailure == [ok |-> FALSE, links |-> <<>>, ver |-> 1]

FetchErrorText == "Content could not be retrieved."

LinkSeqs == UNION {[1..n -> Hrefs] : n \in 0..MaxLinks}

\* A fetch of the list page: failed, or its article links in page order and
\* the edition of the site.
Webs ==
  {ListFailure} \cup [ok : {TRUE}, links : LinkSeqs, ver : Versions]

LinkText(web, href) ==
  IF web.ver = 3 /\ href = "a" THEN ""
  ELSE IF web.ver = 1 THEN "T1" ELSE "T2"

\* the text of the letter's page: "a" is a short letter, "b" a long one
BodyText(href) == IF href = "a" THEN "c1" ELSE "c2long"

BodyChars(content) ==
  CASE content = "c1" -> 2
    [] content = "c2long" -> SummaryChars + 1
    [] content = FetchErrorText -> 30
    [] OTHER -> 0

Min(x, y) == IF x < y THEN x ELSE y

Max(x, y) == IF x > y THEN x ELSE y

\* content[:500] + "..." if len(content) > 500 else content
Summary(content) ==
  IF BodyChars(content) > SummaryChars THEN "c2[:500]..." ELSE content

\* the year the regex /(\d{4})/ finds in the letter's url
DateOf(url) == IF url = "a" THEN "2023" ELSE "2024"

scrape_letter_content(web, url) ==
  IF web.ver = 3 /\ url = "b" THEN FetchErrorText ELSE BodyText(url)

LetterOf(web, href) ==
  LET content == scrape_letter_content(web, href)
  IN [title |-> LinkText(web, href), url |-> href, date |-> DateOf(href),
      summary |-> Summary(content), content |-> content]

RECURSIVE ScrapedLetters(_, _)
\* the loop over article_links[:max_letters], skipping links without text
ScrapedLetters(web, links) ==
  IF links = <<>> THEN <<>>
  ELSE LET rest == ScrapedLetters(web, Tail(links))
       IN IF LinkText(web, Head(links)) # ""
          THEN <<LetterOf(web, Head(links))>> \o rest
          ELSE rest

Prefix(s, n) == SubSeq(s, 1, Min(n, Len(s)))

max_letters(limit) == Max(limit, MinFetch)

\* the items the scraper retrieves from a site for a request of limit
Retrieved(web, limit) ==
  ScrapedLetters(web, Prefix(web.links, max_letters(limit)))

----------------------------------------------------------------------------
(* Tables.  letters is the economic_letters table in id order (row i has   *)
(* id i; no operation deletes a letter), cache the cache_metadata table,   *)
(* insights the insights table, each as the set or sequence of its rows.   *)

LettersListKey == "letters_list"

CacheTypes == {"none", "letters_list", "letter_content"}

Range(s) == {s[i] : i \in DOMAIN s}

\* ORDER BY scraped_at DESC.  utcnow() has microsecond resolution, so rows
\* inserted within one hour of the model carry stamps that grow with the id.
ScrapedBefore(r1, r2) ==
  \/ r1.scraped_at > r2.scraped_at
  \/ r1.scraped_at = r2.scraped_at /\ r1.id > r2.id

OrderByScrapedAtDesc(tbl) ==
  [i \in 1..Len(tbl) |->
     CHOOSE r \in Range(tbl) :
       Cardinality({r2 \in Range(tbl) : ScrapedBefore(r2, r)}) = i - 1]

LetterData(row) ==
  [title |-> row.title, url |-> row.url, date |-> row.date,
   summary |-> row.summary, content |-> row.content]

\* (mutant) the filter without its expiry condition
ValidEntriesIgnoringExpiry(c, t, key) ==
  {e \in c : e.cache_key = key /\ e.is_valid = TRUE}

\* filter(cache_key == key, expires_at > utcnow(), is_valid == True)
ValidEntries(c, t, key) ==
  {e \in c : e.cache_key = key /\ e.expires_at > t /\ e.is_valid = TRUE}

is_cache_valid(c, t, key) == ValidEntries(c, t, key) # {}

Miss == [letters |-> <<>>, has_more |-> FALSE]

\* offset(offset).limit(limit).all()
Page(rows, limit, offset) ==
  SubSeq(rows, offset + 1, Min(offset + limit, Len(rows)))

get_letters_from_cache(tbl, c, t, limit, offset) ==
  IF ValidEntries(c, t, LettersListKey) = {} THEN Miss
  ELSE LET ordered == OrderByScrapedAtDesc(tbl)
           total_count == Len(ordered)
           page == Page(ordered, limit, offset)
       IN [letters |-> [i \in 1..Len(page) |-> LetterData(page[i])],
           has_more |-> (offset + limit) < total_count]

\* query(EconomicLetter).filter(url == u).first(); url is unique
ExistingLetter(tbl, u) == {i \in 1..Len(tbl) : tbl[i].url = u}

\* An item whose url has no row becomes a pending insert; autoflush is off,
\* so a second item with the same new url is a second pending insert, and
\* the flush then violates the unique index on url.
PendingInserts(tbl, batch) ==
  SelectSeq(batch, LAMBDA item : ExistingLetter(tbl, item.url) = {})

\* (mutant) a url column without its unique index
NoUniqueIndex(tbl, pending) == FALSE

\* the unique index on url: the flush fails when a pending insert names a
\* url that a row or another pending insert carries
UniqueViolation(tbl, pending) ==
  \/ \E i, j \in 1..Len(pending) : i < j /\ pending[i].url = pending[j].url
  \/ \E i \in 1..Len(pending), j \in 1..Len(tbl) : pending[i].url = tbl[j].url

\* the last item of the batch that names the row's url, 0 if none
LastItemFor(batch, u) ==
  LET hits == {i \in 1..Len(batch) : batch[i].url = u}
  IN IF hits = {} THEN 0 ELSE CHOOSE i \in hits : \A j \in hits : j <= i

\* (mutant) an update that forgets the summary
UpdatedLetterKeepingSummary(row, item, t) ==
  [row EXCEPT !.title = item.title, !.date = item.date,
              !.content = item.content, !.updated_at = t]

UpdatedLetter(row, item, t) ==
  [row EXCEPT !.title = item.title, !.date = item.date,
              !.content = item.content, !.summary = item.summary,
              !.updated_at = t]

NewLetter(item, id, t) ==
  [id |-> id, url |-> item.url, title |-> item.title, date |-> item.date,
   content |-> item.content, summary |-> item.summary,
   scraped_at |-> t, updated_at |-> t]

UpsertedLetters(tbl, batch, t) ==
  LET pending == PendingInserts(tbl, batch)
      updated == [i \in 1..Len(tbl) |->
                    LET k == LastItemFor(batch, tbl[i].url)
                    IN IF k = 0 THEN tbl[i]
                       ELSE UpdatedLetter(tbl[i], batch[k], t)]
      added == [k \in 1..Len(pending) |->
                  NewLetter(pending[k], Len(tbl) + k, t)]
  IN updated \o added

\* (mutant) a refresh that leaves the validity flag as it finds it
RefreshedEntryKeepingValidity(e, t) ==
  [e EXCEPT !.last_updated = t, !.expires_at = t + CACHE_EXPIRY_HOURS]

RefreshedEntry(e, t) ==
  [e EXCEPT !.last_updated = t,
            !.expires_at = t + CACHE_EXPIRY_HOURS,
            !.is_valid = TRUE]

\* extra_data, a count that no operation reads, is left out of the row
NewEntry(key, t) ==
  [cache_key |-> key, cache_type |-> "letters_list", last_updated |-> t,
   expires_at |-> t + CACHE_EXPIRY_HOURS, is_valid |-> TRUE]

RefreshedCache(c, t) ==
  LET old == {e \in c : e.cache_key = LettersListKey}
  IN IF old # {}
     THEN {IF e \in old THEN RefreshedEntry(e, t) ELSE e : e \in c}
     ELSE c \cup {NewEntry(LettersListKey, t)}

\* (mutant) a failed flush that keeps the rows written before the error
store_letters_without_rollback(tbl, c, batch, t) ==
  IF UniqueViolation(tbl, PendingInserts(tbl, batch))
  THEN [ok |-> FALSE,
        letters |-> UpsertedLetters(tbl, <<Head(batch)>>, t),
        cache |-> c]
  ELSE [ok |-> TRUE, letters |-> UpsertedLetters(tbl, batch, t),
        cache |-> RefreshedCache(c, t)]

\* The result of store_letters: what it returns and the tables it leaves.
store_letters(tbl, c, batch, t) ==
  IF UniqueViolation(tbl, PendingInserts(tbl, batch))
  THEN [ok |-> FALSE, letters |-> tbl, cache |-> c]
  ELSE [ok |-> TRUE, letters |-> UpsertedLetters(tbl, batch, t),
        cache |-> RefreshedCache(c, t)]

\* (mutant) an invalidation that deletes the entries it matches
clear_cache_deleting(c, cache_type) ==
  {e \in c : ~(cache_type = "none" \/ e.cache_type = cache_type)}

\* (mutant) an invalidation that does nothing when no category is given
clear_cache_category_only(c, cache_type) ==
  {IF e.cache_type = cache_type
   THEN [e EXCEPT !.is_valid = FALSE] ELSE e : e \in c}

\* query.update({"is_valid": False}), filtered by cache_type if one is given
clear_cache(c, cache_type) ==
  {IF cache_type = "none" \/ e.cache_type = cache_type
   THEN [e EXCEPT !.is_valid = FALSE] ELSE e : e \in c}

----------------------------------------------------------------------------
(* Answers (the insights table) *)

Questions == {"What?", " what? ", "Why?"}

InsightUrls == {"", "a"}

Answers == {"A1", "A2"}

LLMFailure == "llm_failure"

\* what the LLM collaborator can hand back: a text, an empty text, an error
LLMOutcomes == Answers \cup {"", LLMFailure}

NoRow == [id |-> 0]

NoAnswer == "None"

\* question.lower().strip()
Normalized(question) ==
  CASE question = "What?" -> "what?"
    [] question = " what? " -> "what?"
    [] question = "Why?" -> "why?"
    [] OTHER -> question

\* (mutant) a digest of the question as it was typed
hash_as_typed(question) == "md5:" \o question

\* hashlib.md5(...).hexdigest(): one digest per normalized text
_hash_question(question) == "md5:" \o Normalized(question)

Keys == {<<u, _hash_question(q)>> : u \in InsightUrls \ {""}, q \in Questions}

KeyOf(row) == <<row.letter_url, row.question_hash>>

Matching(tbl, letter_url, question_hash) ==
  {r \in tbl : r.letter_url = letter_url /\ r.question_hash = question_hash}

\* .first() of the unordered query: SQLite walks idx_letter_question, whose
\* equal keys come in rowid order, so the row with the least id.
FirstInsight(tbl, letter_url, question_hash) ==
  LET rows == Matching(tbl, letter_url, question_hash)
  IN IF rows = {} THEN NoRow
     ELSE CHOOSE r \in rows : \A r2 \in rows : r.id <= r2.id

get_cached_insight(tbl, letter_url, question) ==
  LET insight == FirstInsight(tbl, letter_url, _hash_question(question))
  IN IF insight # NoRow THEN insight.insight ELSE NoAnswer

\* the rowid SQLite gives an INTEGER PRIMARY KEY row: one above the largest
NextId(tbl) ==
  IF tbl = {} THEN 1
  ELSE 1 + (CHOOSE n \in {r.id : r \in tbl} : \A r \in tbl : r.id <= n)

NewInsight(id, letter_url, question, insight_text, t) ==
  [id |-> id, letter_url |-> letter_url, question |-> question,
   question_hash |-> _hash_question(question), insight |-> insight_text,
   created_at |-> t]

\* (mutant) an update that bumps created_at and leaves the old answer
flush_insight_keeping_text(tbl, existing, letter_url, question, insight_text, t) ==
  IF existing = NoRow
  THEN [ok |-> TRUE,
        insights |-> tbl \cup
          {NewInsight(NextId(tbl), letter_url, question, insight_text, t)}]
  ELSE [ok |-> {r \in tbl : r.id = existing.id} # {},
        insights |-> {IF r.id = existing.id
                      THEN [r EXCEPT !.created_at = t] ELSE r : r \in tbl}]

\* The flush of store_insight, given the row its query loaded (NoRow if it
\* found none).  An UPDATE names the loaded row by id and sets the columns
\* whose value differs from the loaded one; it fails when the row is gone.
flush_insight(tbl, existing, letter_url, question, insight_text, t) ==
  IF existing = NoRow
  THEN [ok |-> TRUE,
        insights |-> tbl \cup
          {NewInsight(NextId(tbl), letter_url, question, insight_text, t)}]
  ELSE LET cur == {r \in tbl : r.id = existing.id}
       IN IF cur = {} THEN [ok |-> FALSE, insights |-> tbl]
          ELSE [ok |-> TRUE,
                insights |->
                  {IF r \in cur
                   THEN [r EXCEPT
                           !.insight = IF insight_text # existing.insight
                                       THEN insight_text ELSE r.insight,
                           !.created_at = IF t # existing.created_at
                                          THEN t ELSE r.created_at]
                   ELSE r : r \in tbl}]

\* store_insight run without another writer between its query and its flush
store_insight(tbl, letter_url, question, insight_text, t) ==
  flush_insight(tbl,
                FirstInsight(tbl, letter_url, _hash_question(question)),
                letter_url, question, insight_text, t)

delete_question(tbl, question_id) ==
  LET insight == {r \in tbl : r.id = question_id}
  IN IF insight # {} THEN [ok |-> TRUE, insights |-> tbl \ insight]
     ELSE [ok |-> FALSE, insights |-> tbl]

----------------------------------------------------------------------------
(* The letters handlers of main.py, as functions of the tables they find   *)

\* what scrape_economic_letters hands back once the scrape has gone
\* through: letters[:limit], and the tables store_letters left
Scraped(scraped, stored, limit) ==
  [letters |-> Prefix(scraped, limit), path |-> "scraped",
   tbl |-> stored.letters, cache |-> stored.cache]

\* (mutant) a scraper that stores whatever it retrieved, nothing included
AlwaysStore(scraped) == TRUE

\* "if letters": store_letters is called only with at least one item
HasLetters(scraped) == scraped # <<>>

\* (mutant) a scraper without its except clause: the failure reaches the
\* caller
ScrapeFailedRaising(tbl, c, t, limit) ==
  [letters |-> <<>>, path |-> "error", tbl |-> tbl, cache |-> c]

\* the except clause of scrape_economic_letters: the cache is asked again,
\* by the same query, and an empty list is returned if it serves nothing
ScrapeFailed(tbl, c, t, limit) ==
  LET fallback_letters == get_letters_from_cache(tbl, c, t, limit, 0).letters
  IN [letters |-> fallback_letters, path |-> "scrape_failed",
      tbl |-> tbl, cache |-> c]

\* scrape_economic_letters: what it returns, by which way, and the tables
\* it leaves
scrape_economic_letters(tbl, c, t, limit, web) ==
  LET cached_letters == get_letters_from_cache(tbl, c, t, limit, 0).letters
  IN IF cached_letters # <<>>
     THEN [letters |-> cached_letters, path |-> "cache",
           tbl |-> tbl, cache |-> c]
     ELSE IF web = ListFailure
     THEN ScrapeFailed(tbl, c, t, limit)
     ELSE LET scraped ==
                ScrapedLetters(web, Prefix(web.links, max_letters(limit)))
          IN IF HasLetters(scraped)
             THEN Scraped(scraped, store_letters(tbl, c, scraped, t), limit)
             ELSE Scraped(scraped, [letters |-> tbl, cache |-> c], limit)

\* the response of GET /api/letters when it turns to the scraper
ScrapedResponse(got, limit) ==
  [letters |-> got.letters, has_more |-> Len(got.letters) >= limit,
   path |-> got.path, tbl |-> got.tbl, cache |-> got.cache]

\* GET /api/letters
get_letters(tbl, c, t, page, limit, web) ==
  LET offset == page * limit
      found == get_letters_from_cache(tbl, c, t, limit, offset)
  IN IF found.letters = <<>> /\ page = 0
     THEN ScrapedResponse(scrape_economic_letters(tbl, c, t, limit, web),
                          limit)
     ELSE [letters |-> found.letters, has_more |-> found.has_more,
           path |-> "page", tbl |-> tbl, cache |-> c]

\* (mutant) a refresh that does not invalidate first
refresh_letters_without_clear(tbl, c, t, web) ==
  scrape_economic_letters(tbl, c, t, RefreshLimit, web)

\* POST /api/letters/refresh
refresh_letters(tbl, c, t, web) ==
  scrape_economic_letters(tbl, clear_cache(c, "letters_list"), t,
                          RefreshLimit, web)

----------------------------------------------------------------------------
(* Steps *)

Procs == {1, 2}

Idle == [p \in Procs |-> "idle"]

NoLoc == [p \in Procs |-> NoRow]

\* the limits of a request that asks for letters
Limits1 == 1..MaxLimit

\* the batches the scraper can hand to store_letters (it passes no empty one)
Batches ==
  {ScrapedLetters(web, web.links) : web \in Webs \ {ListFailure}} \ {<<>>}

\* the fetches a letters request can meet: the site is fetched only on the
\* first page and only when the store serves nothing
WebsSeen(page, limit) ==
  IF page = 0 /\ get_letters_from_cache(letters, cache, now, limit, 0).letters = <<>>
  THEN Webs ELSE {ListFailure}

Init ==
  /\ now = 0
  /\ letters = <<>>
  /\ cache = {}
  /\ insights = {}
  /\ written = [k \in Keys |-> NoAnswer]
  /\ ret = [op |-> "init"]
  /\ pc = Idle
  /\ loc = NoLoc

\* (mutant) a clock whose passing purges the answers older than the expiry
TickExpiringAnswers ==
  /\ now + TickHours <= MaxTicks * TickHours
  /\ now' = now + TickHours
  /\ insights' = {r \in insights :
                    r.created_at + CACHE_EXPIRY_HOURS > now + TickHours}
  /\ ret' = [op |-> "tick"]
  /\ UNCHANGED <<letters, cache, written, pc, loc>>

\* the clock moves on
Tick ==
  /\ now + TickHours <= MaxTicks * TickHours
  /\ now' = now + TickHours
  /\ ret' = [op |-> "tick"]
  /\ UNCHANGED <<letters, cache, insights, written, pc, loc>>

StoreLetters(batch) ==
  \E r \in {store_letters(letters, cache, batch, now)} :
     /\ letters' = r.letters
     /\ cache' = r.cache
     /\ ret' = [op |-> "store_letters", ok |-> r.ok]
     /\ UNCHANGED <<now, insights, written, pc, loc>>

ClearCache(cache_type) ==
  /\ cache' = clear_cache(cache, cache_type)
  /\ ret' = [op |-> "clear_cache"]
  /\ UNCHANGED <<now, letters, insights, written, pc, loc>>

GetLetters(page, limit, web) ==
  \E r \in {get_letters(letters, cache, now, page, limit, web)} :
     /\ letters' = r.tbl
     /\ cache' = r.cache
     /\ ret' = [op |-> "get_letters", offset |-> page * limit, limit |-> limit,
                count |-> Len(r.letters), has_more |-> r.has_more,
                path |-> r.path]
     /\ UNCHANGED <<now, insights, written, pc, loc>>

RefreshLetters(web) ==
  \E r \in {refresh_letters(letters, cache, now, web)} :
     /\ letters' = r.tbl
     /\ cache' = r.cache
     /\ ret' = [op |-> "refresh_letters", count |-> Len(r.letters),
                path |-> r.path]
     /\ UNCHANGED <<now, insights, written, pc, loc>>

Next ==
  \/ Tick
  \/ \E batch \in Batches : StoreLetters(batch)
  \/ \E cache_type \in CacheTypes : ClearCache(cache_type)
  \/ \E page \in 0..MaxPage, limit \in 0..MaxLimit :
       \E web \in WebsSeen(page, limit) : GetLetters(page, limit, web)
  \/ \E web \in Webs : RefreshLetters(web)

Spec == Init /\ [][Next]_vars

----------------------------------------------------------------------------
(* The answer handler of main.py *)

ErrorPayload == "Error generating insight: ..."

\* (mutant) a handler that caches whether or not a document is named
AnyDocument(letter_url) == TRUE

\* "if letter_url": the request names a document
HasDocument(letter_url) == letter_url # ""

\* (mutant) a collaborator whose failure comes back as its text
NeverRaised(out) == FALSE

\* bedrock.invoke_model or the reading of its response raises
Raised(out) == out = LLMFailure

\* get_llm_insight: what it returns, by which way, and the table it leaves
get_llm_insight(tbl, t, question, letter_url, out) ==
  LET cached_insight ==
        IF HasDocument(letter_url)
        THEN get_cached_insight(tbl, letter_url, question)
        ELSE NoAnswer
  IN IF cached_insight # NoAnswer /\ cached_insight # ""
     THEN [value |-> cached_insight, path |-> "cache", ok |-> FALSE,
           insights |-> tbl]
     ELSE IF Raised(out)
     THEN [value |-> ErrorPayload, path |-> "error", ok |-> FALSE,
           insights |-> tbl]
     ELSE IF HasDocument(letter_url) /\ out # ""
     THEN LET r == store_insight(tbl, letter_url, question, out, t)
          IN [value |-> out, path |-> "stored", ok |-> r.ok,
              insights |-> r.insights]
     ELSE [value |-> out, path |-> "passthrough", ok |-> FALSE,
           insights |-> tbl]

\* the answer last written for each (letter_url, question_hash), NoAnswer
\* once a row of the pair is deleted
Written(w, letter_url, question, insight_text, ok) ==
  IF ok THEN [w EXCEPT ![<<letter_url, _hash_question(question)>>] =
                insight_text]
  ELSE w

Forgotten(w, tbl, question_id) ==
  [k \in Keys |->
     IF \E r \in tbl : r.id = question_id /\ KeyOf(r) = k
     THEN NoAnswer ELSE w[k]]

StoreInsight(letter_url, question, insight_text) ==
  \E r \in {store_insight(insights, letter_url, question, insight_text, now)} :
     /\ insights' = r.insights
     /\ written' = Written(written, letter_url, question, insight_text, r.ok)
     /\ ret' = [op |-> "store_insight", ok |-> r.ok,
                updated |-> Matching(insights, letter_url,
                                     _hash_question(question)) # {}]
     /\ UNCHANGED <<now, letters, cache, pc, loc>>

GetInsights(question, letter_url, out) ==
  \E r \in {get_llm_insight(insights, now, question, letter_url, out)} :
     /\ insights' = r.insights
     /\ written' = Written(written, letter_url, question, out, r.ok)
     /\ ret' = [op |-> "get_llm_insight", value |-> r.value,
                path |-> r.path, ok |-> r.ok,
                question |-> question, letter_url |-> letter_url]
     /\ UNCHANGED <<now, letters, cache, pc, loc>>

\* HTTP outcomes of DELETE /api/questions/{question_id}
Deleted == [status |-> 200, detail |-> "Question deleted successfully"]

NotFound == [status |-> 404, detail |-> "Question not found"]

\* "except Exception" around the handler's body: HTTPException is an
\* Exception, so whatever the body raises leaves as a 500
ExceptException(raised) ==
  [status |-> 500, detail |-> "Error deleting question: ..."]

\* the outcome of the endpoint for the result of db_manager.delete_question
delete_question_outcome(success) ==
  IF success THEN Deleted ELSE ExceptException(NotFound)

DeleteQuestion(question_id) ==
  \E r \in {delete_question(insights, question_id)} :
     /\ insights' = r.insights
     /\ written' = Forgotten(written, insights, question_id)
     /\ ret' = [op |-> "delete_question", ok |-> r.ok,
                status |-> delete_question_outcome(r.ok).status]
     /\ UNCHANGED <<now, letters, cache, pc, loc>>

InsightNext ==
  \/ Tick
  \/ \E cache_type \in CacheTypes : ClearCache(cache_type)
  \/ \E u \in InsightUrls \ {""}, q \in Questions, a \in Answers :
       StoreInsight(u, q, a)
  \/ \E q \in Questions, u \in InsightUrls, out \in LLMOutcomes :
       GetInsights(q, u, out)
  \/ \E id \in 1..MaxId : DeleteQuestion(id)

InsightSpec == Init /\ [][InsightNext]_vars

----------------------------------------------------------------------------
(* Two answer requests at once.  A request leaves the store between its   *)
(* lookup, the query of store_insight and the flush: pysqlite opens the    *)
(* transaction at the first INSERT or UPDATE, so the two queries see the   *)
(* rows committed so far and nothing holds them still until the flush.     *)

\* get_cached_insight of get_llm_insight
Ask(p, question, letter_url) ==
  /\ pc[p] = "idle"
  /\ LET hit == /\ letter_url # ""
                /\ get_cached_insight(insights, letter_url, question)
                     \notin {NoAnswer, ""}
     IN IF hit
        THEN /\ ret' = [op |-> "get_llm_insight", path |-> "cache", ok |-> FALSE,
                        value |-> get_cached_insight(insights, letter_url,
                                                     question)]
             /\ UNCHANGED <<pc, loc>>
        ELSE /\ pc' = [pc EXCEPT ![p] = "llm"]
             /\ loc' = [loc EXCEPT ![p] =
                          [letter_url |-> letter_url, question |-> question]]
             /\ ret' = [op |-> "ask"]
  /\ UNCHANGED <<now, letters, cache, insights, written>>

\* the LLM call returns; on a text to keep, the query of store_insight
Answer(p, out) ==
  /\ pc[p] = "llm"
  /\ IF out # LLMFailure /\ out # "" /\ loc[p].letter_url # ""
     THEN /\ pc' = [pc EXCEPT ![p] = "flush"]
          /\ loc' = [loc EXCEPT ![p] =
                       [letter_url |-> loc[p].letter_url,
                        question |-> loc[p].question,
                        insight_text |-> out,
                        existing |-> FirstInsight(insights, loc[p].letter_url,
                                       _hash_question(loc[p].question))]]
          /\ ret' = [op |-> "answer"]
     ELSE /\ pc' = [pc EXCEPT ![p] = "idle"]
          /\ loc' = [loc EXCEPT ![p] = NoRow]
          /\ ret' = [op |-> "get_llm_insight", ok |-> FALSE,
                     path |-> IF out = LLMFailure THEN "error"
                              ELSE "passthrough",
                     value |-> IF out = LLMFailure THEN ErrorPayload ELSE out]
  /\ UNCHANGED <<now, letters, cache, insights, written>>

\* db.commit() of store_insight, and the return of the request
Flush(p) ==
  /\ pc[p] = "flush"
  /\ \E r \in {flush_insight(insights, loc[p].existing, loc[p].letter_url,
                             loc[p].question, loc[p].insight_text, now)} :
       /\ insights' = r.insights
       /\ written' = Written(written, loc[p].letter_url, loc[p].question,
                             loc[p].insight_text, r.ok)
       /\ ret' = [op |-> "get_llm_insight", value |-> loc[p].insight_text,
                  path |-> "stored", ok |-> r.ok]
  /\ pc' = [pc EXCEPT ![p] = "idle"]
  /\ loc' = [loc EXCEPT ![p] = NoRow]
  /\ UNCHANGED <<now, letters, cache>>

\* the requests in flight ask one question in two spellings
SameQuestions == {"What?", " what? "}

ConcInsightNext ==
  \/ Tick
  \/ \E p \in Procs, q \in SameQuestions, u \in InsightUrls : Ask(p, q, u)
  \/ \E p \in Procs, out \in LLMOutcomes : Answer(p, out)
  \/ \E p \in Procs : Flush(p)
  \/ \E id \in 1..MaxId : DeleteQuestion(id)

ConcInsightSpec == Init /\ [][ConcInsightNext]_vars

----------------------------------------------------------------------------
(* Two letters requests at once.  store_letters runs its lookups, one per  *)
(* item and one for the cache entry, outside any transaction; the flush at *)
(* db.commit() writes what those lookups decided.                          *)

\* the value an UPDATE leaves in a column: the flush sets a column only if
\* the value assigned differs from the value that was loaded
Flushed(assigned, loaded, current) ==
  IF assigned # loaded THEN assigned ELSE current

FlushedLetter(row, seen, item, t) ==
  [row EXCEPT !.title = Flushed(item.title, seen.title, row.title),
              !.date = Flushed(item.date, seen.date, row.date),
              !.content = Flushed(item.content, seen.content, row.content),
              !.summary = Flushed(item.summary, seen.summary, row.summary),
              !.updated_at = Flushed(t, seen.updated_at, row.updated_at)]

FlushedEntry(e, seen, t) ==
  [e EXCEPT !.last_updated = Flushed(t, seen.last_updated, e.last_updated),
            !.expires_at = Flushed(t + CACHE_EXPIRY_HOURS, seen.expires_at,
                                   e.expires_at),
            !.is_valid = Flushed(TRUE, seen.is_valid, e.is_valid)]

\* The flush of store_letters over the tables as they are now, given the
\* tables its lookups saw (seen_tbl, a prefix of tbl: no row is deleted).
flush_letters(tbl, c, seen_tbl, seen_c, batch, t) ==
  LET pending == PendingInserts(seen_tbl, batch)
      seen_entry == {e \in seen_c : e.cache_key = LettersListKey}
      entry == {e \in c : e.cache_key = LettersListKey}
      updated == [i \in 1..Len(tbl) |->
                    IF i <= Len(seen_tbl) /\ LastItemFor(batch, tbl[i].url) # 0
                    THEN FlushedLetter(tbl[i], seen_tbl[i],
                                       batch[LastItemFor(batch, tbl[i].url)], t)
                    ELSE tbl[i]]
      added == [k \in 1..Len(pending) |->
                  NewLetter(pending[k], Len(tbl) + k, t)]
  IN IF \/ UniqueViolation(tbl, pending)
        \/ seen_entry = {} /\ entry # {}
     THEN [ok |-> FALSE, letters |-> tbl, cache |-> c]
     ELSE [ok |-> TRUE, letters |-> updated \o added,
           cache |-> IF seen_entry = {}
                     THEN c \cup {NewEntry(LettersListKey, t)}
                     ELSE {IF e \in entry
                           THEN FlushedEntry(e, CHOOSE s \in seen_entry : TRUE, t)
                           ELSE e : e \in c}]

\* the sites the concurrent requests meet: every letter linked once
ConcWebs ==
  {ListFailure} \cup
  {web \in Webs : /\ web.ok /\ web.ver \in {1, 2} /\ web.links # <<>>
                  /\ \A i, j \in DOMAIN web.links :
                       web.links[i] = web.links[j] => i = j}

\* the cache check of scrape_economic_letters
Lookup(p, limit) ==
  /\ pc[p] = "idle"
  /\ IF get_letters_from_cache(letters, cache, now, limit, 0).letters # <<>>
     THEN /\ ret' = [op |-> "get_letters", path |-> "cache"]
          /\ UNCHANGED <<pc, loc>>
     ELSE /\ pc' = [pc EXCEPT ![p] = "scrape"]
          /\ loc' = [loc EXCEPT ![p] = [limit |-> limit]]
          /\ ret' = [op |-> "lookup"]
  /\ UNCHANGED <<now, letters, cache, insights, written>>

\* the scrape, and on a non-empty result the lookups of store_letters
Load(p, web) ==
  /\ pc[p] = "scrape"
  /\ IF web = ListFailure \/ Retrieved(web, loc[p].limit) = <<>>
     THEN /\ pc' = [pc EXCEPT ![p] = "idle"]
          /\ loc' = [loc EXCEPT ![p] = NoRow]
          /\ ret' = [op |-> "get_letters",
                     path |-> IF web = ListFailure THEN "scrape_failed"
                              ELSE "scraped"]
     ELSE /\ pc' = [pc EXCEPT ![p] = "commit"]
          /\ loc' = [loc EXCEPT ![p] =
                       [batch |-> Retrieved(web, loc[p].limit),
                        seen_tbl |-> letters, seen_c |-> cache]]
          /\ ret' = [op |-> "load"]
  /\ UNCHANGED <<now, letters, cache, insights, written>>

\* db.commit() of store_letters, and the return of the request
Commit(p) ==
  /\ pc[p] = "commit"
  /\ \E r \in {flush_letters(letters, cache, loc[p].seen_tbl, loc[p].seen_c,
                             loc[p].batch, now)} :
       /\ letters' = r.letters
       /\ cache' = r.cache
       /\ ret' = [op |-> "store_letters", ok |-> r.ok]
  /\ pc' = [pc EXCEPT ![p] = "idle"]
  /\ loc' = [loc EXCEPT ![p] = NoRow]
  /\ UNCHANGED <<now, insights, written>>

\* the requests overlap within one hour of the clock
ConcLettersNext ==
  \/ \E cache_type \in CacheTypes : ClearCache(cache_type)
  \/ \E p \in Procs, limit \in Limits1 : Lookup(p, limit)
  \/ \E p \in Procs, web \in ConcWebs : Load(p, web)
  \/ \E p \in Procs : Commit(p)

ConcLettersSpec == Init /\ [][ConcLettersNext]_vars

----------------------------------------------------------------------------
(* Properties of the letters cache, checked under Spec *)

Limits == 0..MaxLimit

Offsets == 0..(MaxPage * MaxLimit)

TimePoints == {k * TickHours : k \in 0..(MaxTicks + 2)}

\* the freshness rule of the specification
Usable(e, t) == e.is_valid = TRUE /\ t < e.expires_at

LettersListEntries == {e \in cache : e.cache_key = "letters_list"}

LettersListUsable == \E e \in LettersListEntries : Usable(e, now)

AllMiss(tbl, c, t) ==
  \A limit \in Limits, offset \in Offsets :
    get_letters_from_cache(tbl, c, t, limit, offset) = Miss

\* C1: get_letters_from_cache returns records only if a 'letters_list'
\* entry exists with is_valid true and now < expires_at; when no such entry
\* exists (absent, invalidated or expired) it returns ([], False) and
\* is_cache_valid is false.
C1_CacheGate ==
  \A limit \in Limits, offset \in Offsets :
    LET r == get_letters_from_cache(letters, cache, now, limit, offset)
    IN /\ r.letters # <<>> => LettersListUsable
       /\ ~LettersListUsable =>
            /\ r = [letters |-> <<>>, has_more |-> FALSE]
            /\ ~is_cache_valid(cache, now, "letters_list")

\* a valid entry whose expiry has passed, over stored documents
C1_Witness ==
  /\ letters # <<>>
  /\ \E e \in LettersListEntries : e.is_valid /\ e.expires_at <= now
  /\ AllMiss(letters, cache, now)

StoredPage(tbl, limit) ==
  LET page == Page(OrderByScrapedAtDesc(tbl), limit, 0)
  IN [i \in 1..Len(page) |-> LetterData(page[i])]

\* C2: when scrape_economic_letters misses the cache and the scraper fails
\* while documents are stored, it returns the most recent stored documents
\* even if the 'letters_list' entry is expired.
C2_StaleFallback ==
  \A limit \in Limits \ {0} :
    LET r == scrape_economic_letters(letters, cache, now, limit, ListFailure)
    IN (r.path = "scrape_failed" /\ letters # <<>>) =>
         r.letters = StoredPage(letters, limit)

StableFields(row) ==
  [id |-> row.id, url |-> row.url, title |-> row.title, date |-> row.date,
   content |-> row.content, summary |-> row.summary,
   scraped_at |-> row.scraped_at]

Records(tbl) == {StableFields(tbl[i]) : i \in 1..Len(tbl)}

OnePerUrl(tbl) ==
  \A i, j \in 1..Len(tbl) : tbl[i].url = tbl[j].url => i = j

\* C5: there is at most one EconomicLetter row per url, and store_letters
\* called twice with the same input leaves the records that one call
\* leaves (one per url, not two).
C5_Idempotent ==
  /\ OnePerUrl(letters)
  /\ \A batch \in Batches, t2 \in {now, now + TickHours} :
       LET once == store_letters(letters, cache, batch, now)
           twice == store_letters(once.letters, once.cache, batch, t2)
       IN /\ OnePerUrl(once.letters)
          /\ Len(twice.letters) = Len(once.letters)
          /\ Records(twice.letters) = Records(once.letters)

\* both urls stored, one of them by more than one store_letters call
C5_Witness ==
  /\ ret.op = "store_letters" /\ ret.ok
  /\ Len(letters) = Cardinality(Hrefs)
  /\ \E i \in 1..Len(letters) : letters[i].updated_at > letters[i].scraped_at

RowsOf(tbl, u) == {i \in 1..Len(tbl) : tbl[i].url = u}

Occurrences(list, u) == Cardinality({j \in 1..Len(list) : list[j].url = u})

\* C6: when store_letters succeeds for an item whose url is stored, the
\* row's title, date, content and summary become the item's values and
\* updated_at becomes the time of the call; get_letters_from_cache then
\* lists that url once (never twice on any page), carrying those values.
C6_UpdateOverwrites ==
  [][(ret'.op = "store_letters" /\ ret'.ok) =>
       \A batch \in Batches :
         StoreLetters(batch) =>
           /\ \A k \in 1..Len(batch) :
                \A i \in RowsOf(letters, batch[k].url) :
                  /\ LetterData(letters'[i]) = batch[k]
                  /\ letters'[i].updated_at = now
                  /\ letters'[i].updated_at >= letters[i].updated_at
                  /\ letters'[i].scraped_at = letters[i].scraped_at
           /\ \A all \in {get_letters_from_cache(letters', cache', now,
                                                 Len(letters'), 0).letters} :
                \A k \in 1..Len(batch) :
                  RowsOf(letters, batch[k].url) # {} =>
                    /\ Occurrences(all, batch[k].url) = 1
                    /\ \A j \in 1..Len(all) :
                         all[j].url = batch[k].url => all[j] = batch[k]
           /\ \A limit \in Limits, offset \in Offsets :
                \A pg \in {get_letters_from_cache(letters', cache', now,
                                                  limit, offset).letters} :
                  \A k \in 1..Len(batch) :
                    Occurrences(pg, batch[k].url) <= 1
    ]_vars

\* a stored letter whose title was overwritten by a later store_letters
C6_Witness ==
  /\ ret.op = "store_letters" /\ ret.ok
  /\ \E i \in 1..Len(letters) :
       /\ letters[i].updated_at > letters[i].scraped_at
       /\ letters[i].updated_at = now
       /\ letters[i].title = "T2"

Committed(tbl, item) ==
  \E i \in 1..Len(tbl) : LetterData(tbl[i]) = item

\* C7: store_letters is all-or-nothing: it returns True with every item of
\* the batch and the refreshed 'letters_list' entry committed, or it returns
\* False (it does not raise) with the documents and the cache entry exactly
\* as before the call; a batch naming one new url twice is of the second
\* kind.
C7_AllOrNothing ==
  [][ret'.op = "store_letters" =>
       \A batch \in Batches :
         StoreLetters(batch) =>
           /\ ret'.ok \in BOOLEAN
           /\ ret'.ok =>
                /\ \A k \in 1..Len(batch) : Committed(letters', batch[k])
                /\ \E e \in cache' :
                     /\ e.cache_key = "letters_list" /\ e.is_valid
                     /\ e.expires_at = now + CACHE_EXPIRY_HOURS
           /\ ~ret'.ok => letters' = letters /\ cache' = cache
           /\ (\E i, j \in 1..Len(batch) :
                 /\ i < j /\ batch[i].url = batch[j].url
                 /\ RowsOf(letters, batch[i].url) = {}) => ~ret'.ok
    ]_vars

\* a failed store_letters over stored documents and a usable entry
C7_Witness ==
  /\ ret.op = "store_letters" /\ ~ret.ok
  /\ letters # <<>>
  /\ LettersListUsable

Invalidated == \A e \in LettersListEntries : ~e.is_valid

\* a step in which some store_letters call went through
StoreSucceeded ==
  \E batch \in Batches :
    \E c0 \in {cache, clear_cache(cache, "letters_list")} :
      LET r == store_letters(letters, c0, batch, now)
      IN r.ok /\ letters' = r.letters /\ cache' = r.cache

\* C8: after clear_cache('letters_list') or clear_cache() every
\* get_letters_from_cache call returns ([], False), though document rows
\* remain, until the next successful store_letters.
C8_ClearedUntilStore ==
  [][/\ \A cache_type \in {"none", "letters_list"} :
          ClearCache(cache_type) =>
            /\ Invalidated'
            /\ AllMiss(letters', cache', now')
            /\ letters' = letters
     /\ (Invalidated /\ AllMiss(letters, cache, now)) =>
          \/ Invalidated' /\ AllMiss(letters', cache', now')
          \/ StoreSucceeded
    ]_vars

\* an invalidated entry that has not expired, over stored documents
C8_Witness ==
  /\ ret.op = "clear_cache"
  /\ letters # <<>>
  /\ \E e \in LettersListEntries : ~e.is_valid /\ now < e.expires_at
  /\ AllMiss(letters, cache, now)

\* C9: a successful store_letters at time t leaves, from any prior state of
\* the 'letters_list' entry, one entry with is_valid true and expires_at =
\* t + 24 hours: usable at t <= now < t + 24h and not at now >= t + 24h;
\* the passing of time leaves the entry as it is.
C9_RefreshedEntry ==
  [][/\ (ret'.op = "store_letters" /\ ret'.ok) =>
          /\ Cardinality(LettersListEntries') = 1
          /\ \A e \in LettersListEntries' :
               /\ e.is_valid = TRUE
               /\ e.expires_at = now + 24
               /\ e.last_updated = now
          /\ \A t \in TimePoints :
               t >= now =>
                 (is_cache_valid(cache', t, "letters_list") <=> t < now + 24)
     /\ Tick => cache' = cache
    ]_vars

\* a store_letters at a later hour that left the entry fresh
C9_Witness ==
  /\ ret.op = "store_letters" /\ ret.ok
  /\ now > 0
  /\ \E e \in LettersListEntries :
       e.is_valid /\ e.last_updated = now /\ e.expires_at = now + 24

\* C10: for every letters-list response that serves documents, on the
\* cache-hit path and on the scrape path alike, has_more is true iff
\* offset + limit < total stored document count.
C10_HasMore ==
  (ret.op = "get_letters" /\ ret.count > 0) =>
    (ret.has_more <=> ret.offset + ret.limit < Len(letters))

----------------------------------------------------------------------------
(* Properties of the answers *)

\* C3: after any sequence and any interleaving of store_insight calls,
\* two requests that both miss for one letter_url and question included,
\* the store holds at most one Insight row per (letter_url, question_hash).
C3_OneAnswerPerKey ==
  \A r1, r2 \in insights : KeyOf(r1) = KeyOf(r2) => r1 = r2

\* C4: after any sequence of successful store_insight calls for one
\* (letter_url, fingerprint(question)), get_cached_insight returns the
\* answer text of the most recent of them, never an older one.
C4_LatestAnswer ==
  \A u \in InsightUrls \ {""}, q \in Questions :
    LET k == <<u, _hash_question(q)>>
    IN written[k] # NoAnswer => get_cached_insight(insights, u, q) = written[k]

\* a store_insight that overwrote the stored answer of its pair
C4_Witness ==
  /\ ret.op = "store_insight" /\ ret.ok /\ ret.updated
  /\ \E r \in insights : r.insight = "A2" /\ written[KeyOf(r)] = "A2"

\* C11: questions that are equal after lower-casing and stripping have one
\* hash, so store_insight(url, q1, a) followed by get_cached_insight(url, q2)
\* returns a.
C11_NormalizedLookup ==
  \A u \in InsightUrls \ {""}, q1, q2 \in Questions :
    Normalized(q1) = Normalized(q2) =>
      /\ _hash_question(q1) = _hash_question(q2)
      /\ \A a \in Answers :
           LET r == store_insight(insights, u, q1, a, now)
           IN r.ok /\ get_cached_insight(r.insights, u, q2) = a

\* an answer stored under one spelling and served to a request that spells
\* the question differently
C11_Witness ==
  /\ ret.op = "get_llm_insight" /\ ret.path = "cache"
  /\ \E r \in insights :
       /\ r.letter_url = ret.letter_url
       /\ r.question # ret.question
       /\ Normalized(r.question) = Normalized(ret.question)
       /\ r.insight = ret.value

----------------------------------------------------------------------------
(* Properties of the letters handlers, checked under Spec *)

\* C16: on a cache miss with a successful scrape, scrape_economic_letters
\* retrieves at most max(limit, 20) items, persists all retrieved items via
\* store_letters, and returns the first min(limit, retrieved) of them in
\* retrieval order.
C16_OverFetch ==
  \A limit \in Limits, web \in Webs \ {ListFailure} :
    LET r == scrape_economic_letters(letters, cache, now, limit, web)
        retrieved == Retrieved(web, limit)
    IN r.path = "scraped" =>
         /\ Len(retrieved) <= Max(limit, 20)
         /\ r.letters = Prefix(retrieved, Min(limit, Len(retrieved)))
         /\ \A k \in 1..Len(retrieved) : Committed(r.tbl, retrieved[k])

\* the time of the last store_letters call that wrote the row of url u
LastFetch(tbl, u) ==
  LET i == CHOOSE i \in 1..Len(tbl) : tbl[i].url = u
  IN tbl[i].updated_at

\* C17: get_letters_from_cache returns documents most-recently-fetched
\* first: a document written by a later store_letters call (inserted, or
\* fetched again and updated) is never listed after a document whose last
\* fetch was earlier.
C17_MostRecentFirst ==
  LET all == get_letters_from_cache(letters, cache, now, Len(letters), 0).letters
  IN \A i, j \in 1..Len(all) :
       i < j => LastFetch(letters, all[i].url) >= LastFetch(letters, all[j].url)

\* C12: when the scraper fails and neither a document nor a cache entry is
\* stored, the letters-list request returns an empty result, not an error,
\* and leaves the store unchanged.
C12_FreshFailure ==
  (letters = <<>> /\ cache = {}) =>
    \A limit \in Limits :
      LET r == get_letters(letters, cache, now, 0, limit, ListFailure)
      IN /\ r.path = "scrape_failed"
         /\ r.letters = <<>>
         /\ r.tbl = letters /\ r.cache = cache

\* a first-page request that met a failing site over an empty store
C12_Witness ==
  /\ ret.op = "get_letters" /\ ret.path = "scrape_failed"
  /\ ret.count = 0 /\ ret.limit > 0
  /\ letters = <<>> /\ cache = {}

\* C18: when two letters-list requests miss on 'letters_list' at once, both
\* store_letters calls write: each reports success, and after each commit
\* the stored document fields and the cache entry are those of that write
\* (the last write wins); no write fails.
C18_BothWrite ==
  [][\A p \in Procs :
       (pc[p] = "commit" /\ pc'[p] = "idle") =>
         /\ ret'.ok
         /\ \A k \in 1..Len(loc[p].batch) :
              Committed(letters', loc[p].batch[k])
         /\ \E e \in LettersListEntries' :
              e.is_valid /\ e.last_updated = now
                         /\ e.expires_at = now + CACHE_EXPIRY_HOURS
    ]_vars

\* C19: refresh_letters invalidates the 'letters_list' entry before it
\* fetches, so without concurrent requests it always invokes the scraper,
\* never answering from the cache, and if the scrape returns at least one
\* item and the store succeeds the entry is usable when it returns.
C19_RefreshBypassesCache ==
  \A web \in Webs :
    LET r == refresh_letters(letters, cache, now, web)
        cleared == clear_cache(cache, "letters_list")
    IN /\ r.path \in {"scraped", "scrape_failed"}
       /\ (/\ web # ListFailure
           /\ Retrieved(web, RefreshLimit) # <<>>
           /\ store_letters(letters, cleared, Retrieved(web, RefreshLimit),
                            now).ok) =>
            /\ r.path = "scraped"
            /\ is_cache_valid(r.cache, now, "letters_list")
            /\ \E e \in r.cache : e.cache_key = "letters_list" /\ Usable(e, now)

\* a refresh that fetched again a document already stored and left the
\* entry usable
C19_Witness ==
  /\ ret.op = "refresh_letters" /\ ret.path = "scraped" /\ ret.count > 0
  /\ LettersListUsable
  /\ \E i \in 1..Len(letters) :
       letters[i].updated_at = now /\ letters[i].scraped_at < now

CacheKeys(c) == {e.cache_key : e \in c}

\* C20: clear_cache(category) changes only the is_valid flag, setting it
\* false on exactly the entries whose cache_type equals category (on all
\* entries without category): it deletes no entry, leaves expires_at and
\* last_updated unchanged, leaves entries of other categories, documents
\* and answers unchanged; no operation removes a cache entry once created.
C20_ClearOnlyInvalidates ==
  [][/\ \A cache_type \in CacheTypes :
          ClearCache(cache_type) =>
            /\ Cardinality(cache') = Cardinality(cache)
            /\ \A e \in cache :
                 IF cache_type = "none" \/ e.cache_type = cache_type
                 THEN [e EXCEPT !.is_valid = FALSE] \in cache'
                 ELSE e \in cache'
            /\ letters' = letters
            /\ insights' = insights
     /\ CacheKeys(cache) \subseteq CacheKeys(cache')
    ]_vars

\* a usable entry that clear_cache has just invalidated, its stamps kept
C20_Witness ==
  /\ ret.op = "clear_cache"
  /\ letters # <<>>
  /\ \E e \in cache :
       /\ ~e.is_valid /\ e.cache_type = "letters_list"
       /\ e.last_updated < now /\ now < e.expires_at
       /\ e.expires_at = e.last_updated + CACHE_EXPIRY_HOURS

\* C21: whenever the 'letters_list' entry is usable, a GET /api/letters
\* request for page 0 with limit >= 1 is served from storage and never
\* invokes the scraper; in every reachable state a 'letters_list' entry
\* exists only if at least one document is stored.
C21_HitNeverScrapes ==
  /\ LettersListEntries # {} => letters # <<>>
  /\ LettersListUsable =>
       \A limit \in Limits1, web \in Webs :
         LET r == get_letters(letters, cache, now, 0, limit, web)
         IN /\ r.path = "page"
            /\ r.letters = StoredPage(letters, limit) /\ r.letters # <<>>
            /\ r.tbl = letters /\ r.cache = cache

\* a first page served from storage under a usable entry
C21_Witness ==
  /\ ret.op = "get_letters" /\ ret.path = "page"
  /\ ret.offset = 0 /\ ret.limit >= 1 /\ ret.count >= 1
  /\ LettersListUsable

\* C22: a failure of the scraper, on the list fetch or on a document body
\* fetch, never changes stored document content: every stored
\* EconomicLetter's content is text retrieved from the source for its url.
C22_ContentRetrieved ==
  \A i \in 1..Len(letters) : letters[i].content = BodyText(letters[i].url)

----------------------------------------------------------------------------
(* Properties of the answer handler, checked under InsightSpec *)

\* C13: get_llm_insight called without a document identifier neither reads
\* nor writes the Insight store: the LLM is always invoked and the stored
\* answers are unchanged, for every question and every prior store state.
C13_Passthrough ==
  \A q \in Questions, out \in LLMOutcomes :
    LET r == get_llm_insight(insights, now, q, "", out)
        fresh == get_llm_insight({}, now, q, "", out)
    IN /\ r.path \in {"passthrough", "error"}
       /\ r.insights = insights
       /\ r.value = fresh.value /\ r.path = fresh.path
       /\ r.value = IF out = LLMFailure THEN ErrorPayload ELSE out

\* a request without a document that was answered afresh although the
\* store holds another answer to its question
C13_Witness ==
  /\ ret.op = "get_llm_insight" /\ ret.path = "passthrough"
  /\ ret.letter_url = "" /\ ret.value \in Answers
  /\ \E r \in insights :
       /\ Normalized(r.question) = Normalized(ret.question)
       /\ r.insight # ret.value

\* C14: when the LLM collaborator fails, get_llm_insight returns an error
\* payload instead of raising and writes no answer: the Insight store is as
\* before the call, and the error text is never served as a cached answer.
C14_FailureNotStored ==
  /\ \A q \in Questions, u \in InsightUrls :
       LET r == get_llm_insight(insights, now, q, u, LLMFailure)
       IN r.path # "cache" =>
            /\ r.path = "error"
            /\ r.value = ErrorPayload
            /\ r.insights = insights
  /\ \A row \in insights : row.insight \notin {ErrorPayload, LLMFailure}
  /\ \A q \in Questions, u \in InsightUrls \ {""} :
       get_cached_insight(insights, u, q) \notin {ErrorPayload, LLMFailure}

\* a failed request for a document, its question still without an answer
\* while other answers are stored
C14_Witness ==
  /\ ret.op = "get_llm_insight" /\ ret.path = "error"
  /\ ret.letter_url # "" /\ ret.value = ErrorPayload
  /\ get_cached_insight(insights, ret.letter_url, ret.question) = NoAnswer
  /\ insights # {}

Answered(tbl, u, q) == get_cached_insight(tbl, u, q) # NoAnswer

\* C15: answers do not expire: once store_insight(url, q, a) has succeeded,
\* get_cached_insight(url, q) returns a stored answer after any passage of
\* time and after any clear_cache call, with or without category, until the
\* row is deleted by delete_question.
C15_NoExpiry ==
  [][/\ (ret'.op \in {"tick", "clear_cache"}) => insights' = insights
     /\ \A u \in InsightUrls \ {""}, q \in Questions :
          /\ (ret'.op = "store_insight" /\ ret'.ok) =>
               \A a \in Answers :
                 StoreInsight(u, q, a) => get_cached_insight(insights', u, q) = a
          /\ (Answered(insights, u, q) /\ ~Answered(insights', u, q)) =>
               (ret'.op = "delete_question" /\ ret'.ok)
          /\ Answered(insights, u, q) =>
               get_cached_insight(insights, u, q) \in
                 {r.insight : r \in Matching(insights, u, _hash_question(q))}
    ]_vars

\* an answer older than the cache expiry, still served after a clear_cache
C15_Witness ==
  /\ ret.op = "clear_cache"
  /\ \E r \in insights :
       /\ now >= r.created_at + CACHE_EXPIRY_HOURS
       /\ get_cached_insight(insights, r.letter_url, r.question) = r.insight

\* C23: deleting an answer id that is not stored is reported as not-found
\* and not as a failure: delete_question returns False leaving the store
\* unchanged, and DELETE /api/questions/{question_id} responds with the 404
\* 'Question not found' outcome rather than a 500 error outcome.
C23_DeleteNotFound ==
  \A question_id \in 1..MaxId :
    (\A r \in insights : r.id # question_id) =>
      LET r == delete_question(insights, question_id)
      IN /\ r.ok = FALSE /\ r.insights = insights
         /\ delete_question_outcome(r.ok) = NotFound

====
